---- MODULE Spec2Model ----
(***************************************************************************)
(* The joke catalogue: admin.py (a command loop over the list `data`,      *)
(* saved to data.txt after every mutation) and jokes.py (a GUI that        *)
(* presents the shuffled catalogue one joke at a time and saves after      *)
(* every rating).  The two programs share the file data.txt and run one    *)
(* at a time; a run of either is a session of this model.                  *)
(*                                                                         *)
(* Text is modelled as a sequence of whitespace-separated words, a joke    *)
(* as a record (a Python dict), the file as its kind plus, for a JSON      *)
(* array, the sequence of JSON objects (each a sequence of key/value       *)
(* pairs in the order json.dump writes them).  Python indices are 0-based  *)
(* and kept so; the sequence element of index i is data[i + 1].            *)
(***************************************************************************)
EXTENDS Integers, Sequences, FiniteSets, TLC

VARIABLES
    file,             \* data.txt: [kind, items]
    pc,               \* where the running (or last) process is
    tool,             \* "none", "admin" (admin.py) or "gui" (jokes.py)
    data,             \* admin.py: data; jokes.py: self.data
    current_joke,     \* jokes.py: self.current_joke
    punchline_label,  \* jokes.py: text of self.punchline_label
    output,           \* the last message printed or shown in a message box
    wrote,            \* whether the last step opened data.txt for writing
    loaded,           \* jokes.py: the list json.load returned, before the shuffle
    acted             \* jokes.py: rate_joke/abstain_joke calls of this session

vars == <<file, pc, tool, data, current_joke, punchline_label, output, wrote,
          loaded, acted>>

----------------------------------------------------------------------------
(* Bounds *)

\* most jokes the catalogue holds (add is disabled beyond it)
MaxJokes == 2
\* most ratings the catalogue holds, over all its jokes (rating is disabled
\* beyond it)
MaxRatings == 2

----------------------------------------------------------------------------
(* Text *)

Setups == {<<"why">>, <<"Knock", "knock">>}
Punchlines == {<<"Boo">>}
Ratings == {"laughs", "groans"}

\* str.lower on one word
LowerWord(w) ==
    CASE w = "Knock" -> "knock"
      [] w = "Boo" -> "boo"
      [] w = "D" -> "d"
      [] OTHER -> w

\* str.lower
lower(text) == [i \in 1..Len(text) |-> LowerWord(text[i])]

\* Python's `term in text` for strings: term occurs contiguously in text
Contains(term, text) ==
    \E k \in 0..(Len(text) - Len(term)) :
        \A i \in 1..Len(term) : text[k + i] = term[i]

\* words that str.isdigit accepts; "sup2" stands for the superscript two,
\* a digit to str.isdigit that int() rejects with ValueError
DigitWords == {"0", "1", "2", "3", "sup2"}

\* whether int() raises ValueError on a word str.isdigit accepted
IntRaises(w) == w = "sup2"

\* int() on a decimal word
int(w) ==
    CASE w = "0" -> 0
      [] w = "1" -> 1
      [] w = "2" -> 2
      [] w = "3" -> 3

\* arg.isdigit(): arg is the rest of the line; more than one word holds a space
isdigit(arg) == Len(arg) = 1 /\ arg[1] \in DigitWords

----------------------------------------------------------------------------
(* The file and JSON *)

\* json.dump of one joke dict: the keys in insertion order
DumpJoke(joke) ==
    << <<"setup", joke.setup>>, <<"punchline", joke.punchline>>,
       <<"laughs", joke.laughs>>, <<"groans", joke.groans>> >>

\* json.load of one JSON object: a dict of its keys
LoadJoke(obj) ==
    [k \in {obj[i][1] : i \in 1..Len(obj)} |->
        obj[CHOOSE i \in 1..Len(obj) : obj[i][1] = k][2]]

\* the contents of data.txt after json.dump(data_list, file, indent=4)
save_data_drop(data_list) ==
    [kind |-> "array",
     items |-> [i \in 1..(Len(data_list) - 1) |-> DumpJoke(data_list[i])]]

save_data(data_list) ==
    [kind |-> "array",
     items |-> [i \in 1..Len(data_list) |-> DumpJoke(data_list[i])]]

\* what open() + json.load raise on the file, "none" when they return
LoadError(f) ==
    CASE f.kind = "absent" -> "FileNotFoundError"
      [] f.kind = "denied" -> "PermissionError"
      [] f.kind = "undecodable" -> "UnicodeDecodeError"
      [] f.kind = "notjson" -> "JSONDecodeError"
      [] OTHER -> "none"

\* isinstance(json.load(file), list)
IsList(f) == f.kind = "array"

\* the list json.load returns for a JSON array
LoadValue(f) == [i \in 1..Len(f.items) |-> LoadJoke(f.items[i])]

\* admin.py: except (FileNotFoundError, json.JSONDecodeError, ValueError):
\* JSONDecodeError and UnicodeDecodeError are subclasses of ValueError,
\* PermissionError is not
AdminCaught(exc) ==
    exc \in {"FileNotFoundError", "JSONDecodeError", "UnicodeDecodeError",
             "ValueError"}

\* jokes.py: except (FileNotFoundError, json.JSONDecodeError, ValueError):
GuiCaught(exc) ==
    exc \in {"FileNotFoundError", "JSONDecodeError", "UnicodeDecodeError",
             "ValueError"}

BadFiles ==
    {[kind |-> k, items |-> <<>>] :
        k \in {"absent", "denied", "undecodable", "notjson", "object"}}

----------------------------------------------------------------------------
(* List operations *)

\* 0 <= index < len(data)
ValidIndexNoLower(index, list) == index < Len(list)

ValidIndex(index, list) == 0 <= index /\ index < Len(list)

\* Python's list index: a negative index counts from the end
PyIndex(index, list) == IF index < 0 THEN index + Len(list) ELSE index

\* del data[index]
DeleteAtNext(list, index) ==
    LET i == PyIndex(index, list) + 2
    IN  IF i > Len(list) THEN SubSeq(list, 1, Len(list) - 1)
        ELSE SubSeq(list, 1, i - 1) \o SubSeq(list, i + 1, Len(list))

DeleteAt(list, index) ==
    LET i == PyIndex(index, list) + 1
    IN  SubSeq(list, 1, i - 1) \o SubSeq(list, i + 1, Len(list))

\* the joke dict the add command builds
NewJoke(setup, punchline) ==
    [setup |-> setup, punchline |-> punchline, laughs |-> 0, groans |-> 0]

\* self.data[self.current_joke][rating] += 1
RateDecrement(list, index, rating) ==
    [list EXCEPT ![index + 1][rating] = @ - 1]

RateBoth(list, index, rating) ==
    [list EXCEPT ![index + 1].laughs = @ + 1, ![index + 1].groans = @ + 1]

Rate(list, index, rating) ==
    [list EXCEPT ![index + 1][rating] = @ + 1]

\* self.current_joke == len(self.data) - 1
IsLastOffByOne(index, list) == index = Len(list) - 2

IsLast(index, list) == index = Len(list) - 1

\* the orders random.shuffle can leave a list in
Perms(n) == {p \in [1..n -> 1..n] : \A i, j \in 1..n : p[i] = p[j] => i = j}

ShufflesWithReplacement(list) ==
    {[i \in 1..Len(list) |-> list[f[i]]] : f \in [1..Len(list) -> 1..Len(list)]}

Shuffles(list) ==
    {[i \in 1..Len(list) |-> list[p[i]]] : p \in Perms(Len(list))}

\* the ratings a catalogue holds
RECURSIVE TotalRatings(_)
TotalRatings(list) ==
    IF Len(list) = 0 THEN 0
    ELSE Head(list).laughs + Head(list).groans + TotalRatings(Tail(list))

----------------------------------------------------------------------------
(* Command lines of admin.py *)

Commands == {"a", "l", "s", "v", "d", "t", "q"}
HeadWords == Commands \cup {"D", "x"}
ArgWords == {"0", "1", "3", "sup2", "knock"}

\* what follows the first word: nothing, one word, or more than one
Rests == {<<>>} \cup {<<w>> : w \in ArgWords} \cup {<<"1", "2">>}

\* the lines the user types, after strip(): no word, or a first word and a rest
Lines == {<<>>} \cup {<<h>> \o rest : h \in HeadWords, rest \in Rests}

\* parts = user_input.split(maxsplit=1): at most the first word and the rest
split1(line) ==
    IF Len(line) = 0 THEN <<>>
    ELSE IF Len(line) = 1 THEN <<line[1]>>
    ELSE <<line[1], SubSeq(line, 2, Len(line))>>

\* choice = parts[0].lower(); "IndexError" when parts is empty
choice(line) ==
    LET parts == split1(line)
    IN  IF Len(parts) = 0 THEN "IndexError" ELSE LowerWord(parts[1])

\* arg = parts[1] if len(parts) > 1 else None; None is the empty sequence
\* (both are falsy and the code only tests `if arg`)
arg(line) ==
    LET parts == split1(line)
    IN  IF Len(parts) > 1 THEN parts[2] ELSE <<>>

\* what input_int can return: an integer >= 1
PromptInts == 1..(MaxJokes + 1)

\* what input_something can return as a search term
PromptTerms == {<<"Knock">>, <<"moo">>}

----------------------------------------------------------------------------
(* Process start *)

Placeholder == <<"(Click", "to", "reveal", "punchline)">>

Init ==
    /\ file \in BadFiles
    /\ pc = "idle"
    /\ tool = "none"
    /\ data = <<>>
    /\ current_joke = 0
    /\ punchline_label = <<>>
    /\ output = "none"
    /\ wrote = FALSE
    /\ loaded = <<>>
    /\ acted = 0

\* one process at a time: none is at a prompt or showing a window
NoProcess == pc \notin {"awaiting", "presenting"}

\* admin.py, program initialization
StartAdmin ==
    /\ NoProcess
    /\ LET exc == IF LoadError(file) = "none" /\ ~IsList(file)
                  THEN "ValueError" ELSE LoadError(file)
       IN  /\ data' = IF exc = "none" THEN LoadValue(file) ELSE <<>>
           /\ pc' = IF exc = "none" \/ AdminCaught(exc)
                    THEN "awaiting" ELSE "crashed"
           /\ output' = IF exc = "none" \/ AdminCaught(exc)
                        THEN "Welcome" ELSE exc
    /\ tool' = "admin"
    /\ current_joke' = 0
    /\ punchline_label' = <<>>
    /\ wrote' = FALSE
    /\ loaded' = <<>>
    /\ acted' = 0
    /\ UNCHANGED file

\* jokes.py, ProgramGUI.__init__
StartGUI ==
    /\ NoProcess
    /\ LET exc == IF LoadError(file) = "none"
                     /\ (~IsList(file) \/ Len(file.items) = 0)
                  THEN "ValueError" ELSE LoadError(file)
       IN  IF exc = "none"
           THEN /\ loaded' = LoadValue(file)
                /\ data' \in Shuffles(LoadValue(file))
                /\ pc' = "presenting"
                /\ punchline_label' = Placeholder
                /\ output' = "none"
           ELSE /\ loaded' = <<>>
                /\ data' = <<>>
                /\ pc' = IF GuiCaught(exc) THEN "failed" ELSE "crashed"
                /\ punchline_label' = <<>>
                /\ output' = IF GuiCaught(exc)
                             THEN "Missing/Invalid file." ELSE exc
    /\ tool' = "gui"
    /\ current_joke' = 0
    /\ wrote' = FALSE
    /\ acted' = 0
    /\ UNCHANGED file

----------------------------------------------------------------------------
(* admin.py: one pass of the main menu loop per line *)

AtPrompt == tool = "admin" /\ pc = "awaiting"

GuiIdle == UNCHANGED <<tool, current_joke, punchline_label, loaded, acted>>

\* what a command that only prints leaves behind
Printed(msg) ==
    [data |-> data, file |-> file, wrote |-> FALSE, output |-> msg,
     pc |-> "awaiting"]

\* what an unhandled exception leaves behind
Raised(exc) ==
    [data |-> data, file |-> file, wrote |-> FALSE, output |-> exc,
     pc |-> "crashed"]

\* what a command that changes the list and calls save_data leaves behind
Saved(list, msg) ==
    [data |-> list, file |-> save_data(list), wrote |-> TRUE, output |-> msg,
     pc |-> "awaiting"]

\* the effect of one pass of the loop
Becomes(r) ==
    /\ data' = r.data
    /\ file' = r.file
    /\ wrote' = r.wrote
    /\ output' = r.output
    /\ pc' = r.pc
    /\ GuiIdle

\* a command that only prints
Prints(msg) == Becomes(Printed(msg))

\* an unhandled exception ends the process with a traceback
Raises(exc) == Becomes(Raised(exc))

\* parts[0] on an empty parts list
BlankLine(line) ==
    /\ AtPrompt
    /\ choice(line) = "IndexError"
    /\ Raises("IndexError")

AddJoke(line, setup, punchline) ==
    /\ AtPrompt
    /\ choice(line) = "a"
    /\ Len(data) < MaxJokes
    /\ Becomes(Saved(Append(data, NewJoke(setup, punchline)), "Joke added."))

ListJokes(line) ==
    /\ AtPrompt
    /\ choice(line) = "l"
    /\ Prints(IF Len(data) = 0 THEN "No jokes saved." ELSE "List of jokes:")

SearchJokes(line, prompted) ==
    /\ AtPrompt
    /\ choice(line) = "s"
    /\ IF Len(data) = 0
       THEN Prints("No jokes saved.")
       ELSE LET term == IF Len(arg(line)) > 0
                        THEN lower(arg(line)) ELSE lower(prompted)
                results_found ==
                    \E i \in 1..Len(data) :
                        \/ Contains(term, lower(data[i].setup))
                        \/ Contains(term, lower(data[i].punchline))
            IN  Prints(IF results_found
                       THEN "Search results:" ELSE "No results found.")

\* index = int(arg) - 1 if arg and arg.isdigit() else input_int(...) - 1
UsesArg(line) == Len(arg(line)) > 0 /\ isdigit(arg(line))

Index(line, prompted) ==
    IF UsesArg(line) THEN int(arg(line)[1]) - 1 ELSE prompted - 1

\* the branch `elif choice == 'v'`
ViewOutcome(line, prompted) ==
    IF Len(data) = 0
    THEN Printed("No jokes saved.")
    ELSE IF UsesArg(line) /\ IntRaises(arg(line)[1])
    THEN Raised("ValueError")
    ELSE LET index == Index(line, prompted)
         IN  IF ValidIndex(index, data)
             THEN LET joke == data[PyIndex(index, data) + 1]
                  IN  Printed(IF joke.laughs = 0 /\ joke.groans = 0
                              THEN "This joke has not been rated."
                              ELSE "Laughs: Groans:")
             ELSE Printed("Invalid index number.")

ViewJoke(line, prompted) ==
    /\ AtPrompt
    /\ choice(line) = "v"
    /\ Becomes(ViewOutcome(line, prompted))

\* the branch `elif choice == 'd'`
DeleteOutcome(line, prompted) ==
    IF Len(data) = 0
    THEN Printed("No jokes saved.")
    ELSE IF UsesArg(line) /\ IntRaises(arg(line)[1])
    THEN Raised("ValueError")
    ELSE LET index == Index(line, prompted)
         IN  IF ValidIndex(index, data)
             THEN Saved(DeleteAt(data, index), "Joke deleted.")
             ELSE Printed("Invalid index number.")

DeleteJoke(line, prompted) ==
    /\ AtPrompt
    /\ choice(line) = "d"
    /\ Becomes(DeleteOutcome(line, prompted))

TopJokes(line) ==
    /\ AtPrompt
    /\ choice(line) = "t"
    /\ Prints(IF Len(data) = 0 THEN "No jokes saved." ELSE "Top Laughs Joke:")

Quit(line) ==
    /\ AtPrompt
    /\ choice(line) = "q"
    /\ pc' = "quit"
    /\ output' = "Goodbye!"
    /\ wrote' = FALSE
    /\ UNCHANGED <<file, data>>
    /\ GuiIdle

InvalidChoice(line) ==
    /\ AtPrompt
    /\ choice(line) \notin Commands \cup {"IndexError"}
    /\ Prints("Invalid choice. Please try again.")

----------------------------------------------------------------------------
(* jokes.py: the event handlers *)

Presenting == tool = "gui" /\ pc = "presenting"

\* show_joke after self.current_joke += 1: self.data[self.current_joke]
\* raises IndexError past the end, else the punchline is hidden again
ShowNextStay ==
    /\ current_joke' = current_joke
    /\ pc' = "presenting"
    /\ punchline_label' = Placeholder

ShowNext ==
    /\ current_joke' = current_joke + 1
    /\ IF ValidIndex(current_joke + 1, data)
       THEN pc' = "presenting" /\ punchline_label' = Placeholder
       ELSE pc' = "crashed" /\ UNCHANGED punchline_label

reveal_punchline ==
    /\ Presenting
    /\ punchline_label' = data[current_joke + 1].punchline
    /\ wrote' = FALSE
    /\ UNCHANGED <<file, pc, tool, data, current_joke, output, loaded, acted>>

rate_joke(rating) ==
    /\ Presenting
    /\ TotalRatings(data) < MaxRatings
    /\ data' = Rate(data, current_joke, rating)
    /\ file' = save_data(data')
    /\ wrote' = TRUE
    /\ acted' = acted + 1
    /\ IF IsLast(current_joke, data)
       THEN /\ output' = "That was the last joke. Thanks for rating!"
            /\ pc' = "done"
            /\ UNCHANGED <<current_joke, punchline_label>>
       ELSE /\ output' = "Thank you for rating!"
            /\ ShowNext
    /\ UNCHANGED <<tool, loaded>>

abstain_joke ==
    /\ Presenting
    /\ wrote' = FALSE
    /\ acted' = acted + 1
    /\ IF IsLast(current_joke, data)
       THEN /\ output' = "That was the last joke. No rating recorded."
            /\ pc' = "done"
            /\ UNCHANGED <<current_joke, punchline_label>>
       ELSE /\ output' = "You abstained from rating."
            /\ ShowNext
    /\ UNCHANGED <<file, tool, data, loaded>>

----------------------------------------------------------------------------

Next ==
    \/ StartAdmin
    \/ StartGUI
    \/ \E line \in Lines : BlankLine(line)
    \/ \E line \in Lines, setup \in Setups, punchline \in Punchlines :
          AddJoke(line, setup, punchline)
    \/ \E line \in Lines : ListJokes(line)
    \/ \E line \in Lines, prompted \in PromptTerms : SearchJokes(line, prompted)
    \/ \E line \in Lines, prompted \in PromptInts : ViewJoke(line, prompted)
    \/ \E line \in Lines, prompted \in PromptInts : DeleteJoke(line, prompted)
    \/ \E line \in Lines : TopJokes(line)
    \/ \E line \in Lines : Quit(line)
    \/ \E line \in Lines : InvalidChoice(line)
    \/ reveal_punchline
    \/ \E rating \in Ratings : rate_joke(rating)
    \/ abstain_joke

Spec == Init /\ [][Next]_vars

\* the user of the GUI keeps acting: a window that is showing a joke gets a
\* Laugh, Groan or Abstain click
UserActs == abstain_joke \/ \E rating \in Ratings : rate_joke(rating)

FairSpec == Spec /\ WF_vars(UserActs)

----------------------------------------------------------------------------
(* Properties *)

\* the catalogue a reader of data.txt gets: the array's jokes, and nothing
\* when the file is missing or is not a JSON array
Catalogue(f) ==
    IF LoadError(f) = "none" /\ IsList(f) THEN LoadValue(f) ELSE <<>>

NonNegative(list) ==
    \A i \in 1..Len(list) : list[i].laughs >= 0 /\ list[i].groans >= 0

\* the lines by their first word, lowercased
DeleteLines == {line \in Lines : choice(line) = "d"}
ViewLines == {line \in Lines : choice(line) = "v"}
OtherLines == {line \in Lines : choice(line) \notin Commands}

GuiSession == tool = "gui" /\ pc \in {"presenting", "done"}

GuiDone == tool = "gui" /\ pc = "done"

\* C1: every line that is not one of the commands, the empty line included,
\* prints "invalid choice" and leaves the CLI at its prompt with the
\* catalogue and the file unchanged.
C1_OtherLinesAreInvalidChoice ==
    [][\A line \in OtherLines :
          (BlankLine(line) \/ InvalidChoice(line))
          => /\ output' = "Invalid choice. Please try again."
             /\ pc' = "awaiting"
             /\ data' = data
             /\ file' = file]_vars

\* C2: whenever the CLI awaits a command, loading data.txt yields exactly
\* the in-memory catalogue.
C2_FileIsCatalogueAtPrompt == AtPrompt => Catalogue(file) = data

C2_Witness ==
    /\ AtPrompt
    /\ output = "Joke added."
    /\ Len(data) = 2
    /\ TotalRatings(data) > 0

\* C3: a Rate action on joke i adds exactly 1 to the chosen counter of joke
\* i, changes nothing else in the catalogue, writes the whole catalogue to
\* data.txt, and moves to Done from the last index, else to Presenting(i+1).
C3_RateIncrementsSavesAdvances ==
    [][\A r \in Ratings :
          rate_joke(r) =>
            LET i == current_joke + 1
                other == CHOOSE o \in Ratings : o # r
            IN  /\ Len(data') = Len(data)
                /\ data'[i][r] = data[i][r] + 1
                /\ data'[i][other] = data[i][other]
                /\ data'[i].setup = data[i].setup
                /\ data'[i].punchline = data[i].punchline
                /\ \A j \in 1..Len(data) : j # i => data'[j] = data[j]
                /\ wrote'
                /\ IsList(file')
                /\ LoadValue(file') = data'
                /\ IF current_joke = Len(data) - 1
                   THEN pc' = "done"
                   ELSE pc' = "presenting" /\ current_joke' = current_joke + 1]_vars

C3_Witness ==
    /\ GuiDone
    /\ wrote
    /\ Len(data) = 2
    /\ data[1].laughs = 1
    /\ data[2].groans = 1
    /\ Catalogue(file) = data

\* C4: an Abstain action changes no counter, writes nothing to data.txt, and
\* moves to Done from the last index, else to Presenting(i+1).
C4_AbstainOnlyAdvances ==
    [][abstain_joke =>
          /\ data' = data
          /\ file' = file
          /\ ~wrote'
          /\ IF current_joke = Len(data) - 1
             THEN pc' = "done"
             ELSE pc' = "presenting" /\ current_joke' = current_joke + 1]_vars

C4_Witness ==
    /\ tool = "gui"
    /\ pc = "presenting"
    /\ output = "You abstained from rating."
    /\ current_joke = 1
    /\ ~wrote

\* C5: on a file that is absent, unreadable, not JSON or not an array, the
\* CLI starts at its prompt with an empty catalogue and the GUI shows its
\* error and exits; the GUI does the same on an empty array.
C5_BadFileStartup ==
    [][/\ (StartAdmin /\ file \in BadFiles)
          => (pc' = "awaiting" /\ data' = <<>> /\ output' = "Welcome")
       /\ (StartGUI /\ (file \in BadFiles \/ Len(file.items) = 0))
          => (pc' = "failed" /\ output' = "Missing/Invalid file.")]_vars

\* C6: a successful delete of position k leaves the jokes before k in
\* place, moves every later joke down by one, and writes the result to
\* data.txt before the CLI awaits the next command.
C6_DeleteShiftsAndSaves ==
    (AtPrompt /\ Len(data) > 0) =>
        \A line \in DeleteLines, n \in PromptInts :
            (/\ ~(UsesArg(line) /\ IntRaises(arg(line)[1]))
             /\ 0 <= Index(line, n)
             /\ Index(line, n) < Len(data))
            => LET k == Index(line, n) + 1
                   after == DeleteOutcome(line, n)
               IN  /\ Len(after.data) = Len(data) - 1
                   /\ \A j \in 1..(k - 1) : after.data[j] = data[j]
                   /\ \A j \in (k + 1)..Len(data) : after.data[j - 1] = data[j]
                   /\ after.wrote
                   /\ Catalogue(after.file) = after.data
                   /\ after.pc = "awaiting"

C6_Witness ==
    /\ AtPrompt
    /\ output = "Joke deleted."
    /\ wrote
    /\ Len(data) = MaxJokes - 1

\* C7: view and delete on a non-empty catalogue report a position outside
\* 0 <= index < length as an invalid index and change neither the
\* catalogue nor the file; the CLI stays at its prompt.
C7_OutOfRangeIsInvalidIndex ==
    (AtPrompt /\ Len(data) > 0) =>
        \A line \in ViewLines \cup DeleteLines, n \in PromptInts :
            (/\ ~(UsesArg(line) /\ IntRaises(arg(line)[1]))
             /\ ~(0 <= Index(line, n) /\ Index(line, n) < Len(data)))
            => LET after == IF line \in ViewLines
                            THEN ViewOutcome(line, n) ELSE DeleteOutcome(line, n)
               IN  /\ after.output = "Invalid index number."
                   /\ after.data = data
                   /\ after.file = file
                   /\ ~after.wrote
                   /\ after.pc = "awaiting"

C7_Witness ==
    /\ AtPrompt
    /\ output = "Invalid index number."
    /\ Len(data) = MaxJokes
    /\ Catalogue(file) = data

\* C8: every joke in memory and in data.txt has laughs >= 0 and groans >= 0.
C8_CountersNonNegative == NonNegative(data) /\ NonNegative(Catalogue(file))

C8_Witness ==
    /\ AtPrompt
    /\ Len(data) > 0
    /\ data[1].laughs > 0
    /\ data[1].groans > 0

\* C9: during and after a GUI session data.txt holds the loaded jokes, each
\* once, in some order, each with at most one rating more than loaded; and
\* once a rating has been written the file is the shuffled list.
C9_FileIsPermutationOfLoaded ==
    GuiSession =>
        LET stored == Catalogue(file)
            n == Len(loaded)
            total(j) == j.laughs + j.groans
        IN  /\ Len(stored) = n
            /\ \E p \in Perms(n) :
                  \A k \in 1..n :
                      /\ stored[k].setup = loaded[p[k]].setup
                      /\ stored[k].punchline = loaded[p[k]].punchline
                      /\ total(stored[k]) - total(loaded[p[k]]) \in {0, 1}
            /\ TotalRatings(data) > TotalRatings(loaded) => stored = data

C9_Witness ==
    /\ GuiDone
    /\ Len(data) = 2
    /\ TotalRatings(data) = TotalRatings(loaded) + 2
    /\ data[1].setup # loaded[1].setup
    /\ Catalogue(file) = data

\* while presenting, the cursor is a valid index and counts the clicks taken
C10_CursorInv ==
    /\ (tool = "gui" /\ pc = "presenting")
          => (0 <= current_joke /\ current_joke < Len(data) /\ acted = current_joke)
    /\ GuiDone => acted = Len(data)

C10_CursorStep ==
    /\ (tool = "gui" /\ pc = "presenting")
          => \/ current_joke' = current_joke /\ acted' = acted /\ pc' = pc
             \/ /\ current_joke' = current_joke + 1
                /\ acted' = acted + 1
                /\ pc' = "presenting"
             \/ /\ current_joke = Len(data) - 1
                /\ acted' = acted + 1
                /\ pc' = "done"
    /\ reveal_punchline => (current_joke' = current_joke /\ pc' = pc)
    /\ GuiDone => (StartAdmin \/ StartGUI)

\* C10: the cursor stays within 0 <= i < n while presenting and counts the
\* rate/abstain actions taken; every step of a presenting GUI keeps it
\* (reveal) or advances it by 1, Done is entered from the last index only,
\* after exactly n actions; nothing but a new process follows Done; and a
\* user who keeps acting reaches Done.
C10_PresentsEachOnceThenDone ==
    /\ []C10_CursorInv
    /\ [][C10_CursorStep]_vars
    /\ (tool = "gui" /\ pc = "presenting") ~> GuiDone

C10_Witness ==
    /\ GuiDone
    /\ acted = 2
    /\ Len(data) = 2
    /\ punchline_label # Placeholder

====
